---- MODULE Spec2Model ----
(***************************************************************************)
(* Model of the tokenizer of goliajp/tiktoken: CoreBpe::encode_native and  *)
(* the byte-pair merge engine (src/src/bpe.rs), the cl100k_base            *)
(* segmentation pattern (src/src/encoding.rs) and count_text               *)
(* (src/src/lib.rs).                                                       *)
(*                                                                         *)
(* A text is a sequence of characters; a character is a one-letter string. *)
(* Bytes are numbers 0..255.  Vocabulary keys are byte sequences (the Rust *)
(* keys are Strings built with from_utf8_unchecked, compared bytewise).    *)
(***************************************************************************)
EXTENDS Integers, Sequences, FiniteSets, TLC

VARIABLES
    encoder,                 \* CoreBpe.encoder: byte sequence -> rank
    special_tokens_encoder,  \* CoreBpe.special_tokens_encoder: literal -> id
    text_chars,              \* encode_native: text.chars().collect()
    result,                  \* encode_native: result
    last_piece_token_len,    \* encode_native: last_piece_token_len
    start,                   \* encode_native: start
    start_find,              \* encode_native: start_find
    next_special,            \* encode_native: next_special (None or (start, end))
    store,                   \* encode_native: store, the matches of the span
    store_idx,               \* position of the `for matched in store` loop
    piece,                   \* bytes of the piece being encoded
    parts,                   \* byte_pair_merge: parts, a list of [offset, rank]
    tokens,                  \* value returned by byte_pair_encode
    count,                   \* value returned by count_text
    pc                       \* position of the program

vars == <<encoder, special_tokens_encoder, text_chars, result,
          last_piece_token_len, start, start_find, next_special, store,
          store_idx, piece, parts, tokens, count, pc>>

------------------------------------------------------------------------------
(* Bounds and inputs *)

\* Longest input text, in characters.
MaxLen == 5

\* Characters of the input texts: two ASCII letters, the two-byte letter
\* U+00E9 (written "E"), the space and two punctuation marks.
Alphabet == {"a", "b", "E", " ", "<", ">"}

\* usize::MAX, the rank cached for "no merge possible".  Ranks are isize
\* values cast with `as usize` only when >= 0, so every rank is strictly
\* below it; it is written as the largest integer TLC represents.
UsizeMax == 2147483647

None == <<>>

Min(a, b) == IF a < b THEN a ELSE b

Texts == UNION {[1..n -> Alphabet] : n \in 0..MaxLen}

\* Longest input text of the runs that check termination.
MaxLenLive == 2

ShortTexts == UNION {[1..n -> Alphabet] : n \in 0..MaxLenLive}

------------------------------------------------------------------------------
(* Characters and bytes *)

\* str::as_bytes of one character (its UTF-8 encoding).
Utf8(c) ==
    CASE c = "a" -> <<97>>
      [] c = "b" -> <<98>>
      [] c = "E" -> <<195, 169>>
      [] c = " " -> <<32>>
      [] c = "<" -> <<60>>
      [] c = ">" -> <<62>>

RECURSIVE Bytes(_)
\* String::as_bytes: the UTF-8 bytes of a character sequence.
Bytes(chars) ==
    IF chars = <<>> THEN <<>>
    ELSE Utf8(Head(chars)) \o Bytes(Tail(chars))

\* str::chars().count() of a UTF-8 byte string: the bytes that are not
\* continuation bytes (10xxxxxx).
CharsCount(bytes) ==
    Cardinality({k \in 1..Len(bytes) : bytes[k] < 128 \/ bytes[k] >= 192})

\* Unicode classes used by the segmentation pattern: \p{L}, \s, other.
Class(c) ==
    CASE c \in {"a", "b", "E"} -> "L"
      [] c = " " -> "S"
      [] OTHER -> "P"

\* cut_chars(chars, start, end): chars[start..end] with both ends clamped.
cut_chars(chars, s, e) ==
    SubSeq(chars, Min(s, Len(chars)) + 1, Min(e, Len(chars)))

------------------------------------------------------------------------------
(* The regex engine, at character positions i (1-based), then its byte      *)
(* offsets, then the character offsets the program computes from them.     *)

\* Last index of the run of class cls that starts at i (chars[i] is of cls).
RunEnd(chars, i, cls) ==
    LET S == {j \in i..Len(chars) : \A k \in i..j : Class(chars[k]) = cls}
    IN  CHOOSE j \in S : \A k \in S : k <= j

IsAt(chars, i, cls) == i <= Len(chars) /\ Class(chars[i]) = cls

\* [^\r\n\p{L}\p{N}]?\p{L}+ : last index matched from i, 0 when it fails.
AltLetters(chars, i) ==
    IF IsAt(chars, i, "L") THEN RunEnd(chars, i, "L")
    ELSE IF IsAt(chars, i + 1, "L") THEN RunEnd(chars, i + 1, "L")
    ELSE 0

\*  ?[^\s\p{L}\p{N}]+[\r\n]* : the alphabet has no \r or \n.
AltPunct(chars, i) ==
    IF chars[i] = " " /\ IsAt(chars, i + 1, "P") THEN RunEnd(chars, i + 1, "P")
    ELSE IF IsAt(chars, i, "P") THEN RunEnd(chars, i, "P")
    ELSE 0

\* \s+(?!\S) : the greedy run, given back one character at a time until the
\* next character is not a non-space.
AltSpaceLookahead(chars, i) ==
    IF ~IsAt(chars, i, "S") THEN 0
    ELSE LET j == RunEnd(chars, i, "S")
         IN  IF j = Len(chars) THEN j
             ELSE IF j > i THEN j - 1
             ELSE 0

\* \s+
AltSpace(chars, i) ==
    IF IsAt(chars, i, "S") THEN RunEnd(chars, i, "S") ELSE 0

\* The cl100k_base pattern at position i: the first alternative that
\* matches.  The alternatives for contractions ('s, 't, ...), numbers
\* (\p{N}{1,3}) and line breaks (\s*[\r\n]+) need characters the alphabet
\* does not have.
PatternMatchEnd(chars, i) ==
    IF AltLetters(chars, i) # 0 THEN AltLetters(chars, i)
    ELSE IF AltPunct(chars, i) # 0 THEN AltPunct(chars, i)
    ELSE IF AltSpaceLookahead(chars, i) # 0 THEN AltSpaceLookahead(chars, i)
    ELSE AltSpace(chars, i)

\* The (start, end) character offsets the program computes from a match of
\* chars[i..j]: the regex reports byte offsets, the program counts the
\* characters of the byte prefix and of the matched bytes.
MatchToIndex(chars, i, j) ==
    LET text == Bytes(chars)
        matched_start == Len(Bytes(SubSeq(chars, 1, i - 1)))
        matched_bytes == Bytes(SubSeq(chars, i, j))
        s == CharsCount(SubSeq(text, 1, matched_start))
        e == s + CharsCount(matched_bytes)
    IN  <<s, e>>

\* tl_special_regex: the alternation of the escaped special-token literals,
\* in the order of the map's iteration; "" when there is none.
SpecialAlternatives(special) ==
    CHOOSE alts \in [1..Cardinality(DOMAIN special) -> DOMAIN special] :
        \A l \in DOMAIN special : \E k \in DOMAIN alts : alts[k] = l

IsLiteralAt(chars, i, lit) ==
    /\ i + Len(lit) - 1 <= Len(chars)
    /\ SubSeq(chars, i, i + Len(lit) - 1) = lit

\* find_regex_to_string_index(text, tl_special_regex): the leftmost match.
\* The empty pattern matches the empty string at offset 0 of any text.
find_regex_to_string_index(chars, special) ==
    LET alts == SpecialAlternatives(special)
        hits == {i \in 1..Len(chars) :
                    \E k \in DOMAIN alts : IsLiteralAt(chars, i, alts[k])}
    IN  IF DOMAIN special = {} THEN MatchToIndex(chars, 1, 0)
        ELSE IF hits = {} THEN None
        ELSE LET i == CHOOSE h \in hits : \A g \in hits : h <= g
                 k == CHOOSE a \in DOMAIN alts :
                          /\ IsLiteralAt(chars, i, alts[a])
                          /\ \A b \in DOMAIN alts :
                                 IsLiteralAt(chars, i, alts[b]) => a <= b
             IN  MatchToIndex(chars, i, i + Len(alts[k]) - 1)

RECURSIVE FindIterFrom(_, _)
\* regex.find_iter from position i: the leftmost match, then the matches
\* after its end.
FindIterFrom(chars, i) ==
    LET hits == {p \in i..Len(chars) : PatternMatchEnd(chars, p) # 0}
    IN  IF hits = {} THEN <<>>
        ELSE LET p == CHOOSE h \in hits : \A g \in hits : h <= g
                 j == PatternMatchEnd(chars, p)
             IN  <<MatchToIndex(chars, p, j)>> \o FindIterFrom(chars, j + 1)

\* find_regex_to_all_string_match_index(text, tl_regex)
find_regex_to_all_string_match_index(chars) == FindIterFrom(chars, 1)

------------------------------------------------------------------------------
(* The byte-pair merge engine.  parts[k] = <<offset, rank>>; the code's      *)
(* index i is position i + 1 here.                                         *)

\* piece[s..e]
Slice(bytes, s, e) == SubSeq(bytes, s + 1, e)

\* The closure get_rank of byte_pair_merge.
get_rank(bytes, ranks, prts, start_idx, skip) ==
    IF start_idx + skip + 2 < Len(prts)
    THEN LET key == Slice(bytes, prts[start_idx + 1][1],
                          prts[start_idx + skip + 2 + 1][1])
         IN  IF key \in DOMAIN ranks THEN ranks[key] ELSE -1
    ELSE -1

\* parts after the initialisation loop `for i in 0..parts.len() - 2`.
InitParts(bytes, ranks) ==
    LET p0 == [k \in 1..Len(bytes) + 1 |-> <<k - 1, UsizeMax>>]
    IN  [k \in 1..Len(p0) |->
            IF k - 1 < Len(p0) - 2 /\ get_rank(bytes, ranks, p0, k - 1, 0) >= 0
            THEN <<k - 1, get_rank(bytes, ranks, p0, k - 1, 0)>>
            ELSE p0[k]]

\* (0..parts.len() - 1).min_by_key(|&i| parts[i][1]): the first index whose
\* cached rank is the least.
MinIdx(prts) ==
    CHOOSE i \in 0..Len(prts) - 2 :
        \A j \in 0..Len(prts) - 2 :
            \/ prts[j + 1][2] > prts[i + 1][2]
            \/ prts[j + 1][2] = prts[i + 1][2] /\ j >= i

\* Vec::remove(i)
Remove(s, i) == SubSeq(s, 1, i) \o SubSeq(s, i + 2, Len(s))

\* One iteration of `while parts.len() > 1`.
MergeStepParts(bytes, ranks, prts) ==
    LET min_idx == MinIdx(prts)
        rank == get_rank(bytes, ranks, prts, min_idx, 1)
        p1 == IF rank >= 0
              THEN [prts EXCEPT ![min_idx + 1] = <<@[1], rank>>]
              ELSE prts
        rk == IF min_idx > 0
              THEN get_rank(bytes, ranks, p1, min_idx - 1, 1) ELSE -1
        p2 == IF min_idx > 0 /\ rk >= 0
              THEN [p1 EXCEPT ![min_idx] = <<@[1], rk>>]
              ELSE p1
    IN  Remove(p2, min_idx + 1)

\* The closure f of byte_pair_encode: the rank of piece[s..e], or 0.
RankOrZero(bytes, ranks, s, e) ==
    IF Slice(bytes, s, e) \in DOMAIN ranks THEN ranks[Slice(bytes, s, e)]
    ELSE 0

\* (0..parts.len() - 1).map(|i| f(parts[i][0], parts[i + 1][0])).collect()
EmitParts(bytes, ranks, prts) ==
    [k \in 1..Len(prts) - 1 |->
        RankOrZero(bytes, ranks, prts[k][1], prts[k + 1][1])]

RECURSIVE MergeRun(_, _, _)
\* The whole loop `while parts.len() > 1`.
MergeRun(bytes, ranks, prts) ==
    IF Len(prts) > 1 THEN MergeRun(bytes, ranks, MergeStepParts(bytes, ranks, prts))
    ELSE prts

\* byte_pair_merge(piece, ranks, f)
byte_pair_merge(bytes, ranks) ==
    EmitParts(bytes, ranks, MergeRun(bytes, ranks, InitParts(bytes, ranks)))

\* byte_pair_encode on a one-byte piece without a vocabulary entry:
\* ranks.get(&key).unwrap() fails and the call aborts.
UnwrapFails(bytes, ranks) == Len(bytes) = 1 /\ bytes \notin DOMAIN ranks

\* byte_pair_encode(piece, ranks), when it returns.
byte_pair_encode(bytes, ranks) ==
    IF Len(bytes) = 1 THEN <<ranks[bytes]>>
    ELSE byte_pair_merge(bytes, ranks)

------------------------------------------------------------------------------
(* Configurations handed to CoreBpe::new *)

\* A vocabulary with an entry for every byte of the alphabet and a few
\* multi-byte entries.
VocabFull ==
    (<<97>> :> 0) @@ (<<98>> :> 1) @@ (<<32>> :> 2) @@ (<<195>> :> 3) @@
    (<<169>> :> 4) @@ (<<60>> :> 5) @@ (<<62>> :> 6) @@
    (<<97, 98>> :> 7) @@ (<<32, 97>> :> 8) @@ (<<195, 169>> :> 9) @@
    (<<98, 97>> :> 10)

\* The toy vocabulary of the specification's scenario, {a, b, ab, aba}:
\* most single bytes have no entry.
VocabToy ==
    (<<97>> :> 0) @@ (<<98>> :> 1) @@ (<<97, 98>> :> 2) @@
    (<<97, 98, 97>> :> 3)

Vocabularies == {VocabFull, VocabToy}

\* Special-token sets: none, and one literal "<a>" with id 100257.
NoSpecial == <<>>

OneSpecial == (<<"<", "a", ">">> :> 100257)

SpecialSets == {NoSpecial, OneSpecial}

\* CoreBpe.decoder, built by CoreBpe::new: rank -> bytes.
decoder ==
    [r \in {encoder[k] : k \in DOMAIN encoder} |->
        CHOOSE k \in DOMAIN encoder : encoder[k] = r]

\* CoreBpe.special_tokens_decoder, built by CoreBpe::new: id -> literal.
special_tokens_decoder ==
    [t \in {special_tokens_encoder[l] : l \in DOMAIN special_tokens_encoder} |->
        CHOOSE l \in DOMAIN special_tokens_encoder :
            special_tokens_encoder[l] = t]

------------------------------------------------------------------------------
(* State after CoreBpe::new and the entry of encode_native *)

Init ==
    /\ encoder \in Vocabularies
    /\ special_tokens_encoder \in SpecialSets
    /\ text_chars \in Texts
    /\ result = <<>>
    /\ last_piece_token_len = 0
    /\ start = 0
    /\ start_find = 0
    /\ next_special = None
    /\ store = <<>>
    /\ store_idx = 1
    /\ piece = <<>>
    /\ parts = <<>>
    /\ tokens = <<>>
    /\ count = 0
    /\ pc = "scan"

config == <<encoder, special_tokens_encoder, text_chars>>

\* Head of the outer loop: next_special = None; start_find = start.
OuterLoopHead ==
    /\ pc = "scan"
    /\ next_special' = None
    /\ start_find' = start
    /\ pc' = "probe"
    /\ UNCHANGED <<config, result, last_piece_token_len, start, store,
                   store_idx, piece, parts, tokens, count>>

\* Inner loop, first half: probe the rest of the text for a special token;
\* leave the loop when there is none.
Probe ==
    /\ pc = "probe"
    /\ LET temp == cut_chars(text_chars, start_find, Len(text_chars))
       IN  next_special' = find_regex_to_string_index(temp, special_tokens_encoder)
    /\ pc' = IF next_special' = None THEN "segment" ELSE "advance"
    /\ UNCHANGED <<config, result, last_piece_token_len, start, start_find,
                   store, store_idx, piece, parts, tokens, count>>

\* Inner loop, second half: start_find += next_special.unwrap().1
Advance ==
    /\ pc = "advance"
    /\ start_find' = start_find + next_special[2]
    /\ pc' = "probe"
    /\ UNCHANGED <<config, result, last_piece_token_len, start, next_special,
                   store, store_idx, piece, parts, tokens, count>>

\* end of the ordinary span as the code computes it.
SpanEnd ==
    IF next_special # None THEN start + next_special[1] ELSE Len(text_chars)

\* "confirm text slice end" and the segmentation of the span.
Segment ==
    /\ pc = "segment"
    /\ store' = find_regex_to_all_string_match_index(
                    cut_chars(text_chars, start, SpanEnd))
    /\ store_idx' = 1
    /\ pc' = "pieces"
    /\ UNCHANGED <<config, result, last_piece_token_len, start, start_find,
                   next_special, piece, parts, tokens, count>>

\* The piece of the current match, as bytes.
CurrentPiece ==
    Bytes(cut_chars(text_chars, start + store[store_idx][1],
                    start + store[store_idx][2]))

\* PieceHit with `result.push(token)` left out.
PieceHitNoPush ==
    /\ pc = "pieces"
    /\ store_idx <= Len(store)
    /\ CurrentPiece \in DOMAIN encoder
    /\ piece' = CurrentPiece
    /\ last_piece_token_len' = 1
    /\ store_idx' = store_idx + 1
    /\ UNCHANGED <<config, result, start, start_find, next_special, store,
                   parts, tokens, count, pc>>

\* A piece that is a vocabulary entry: one token, and `continue`.
PieceHit ==
    /\ pc = "pieces"
    /\ store_idx <= Len(store)
    /\ CurrentPiece \in DOMAIN encoder
    /\ piece' = CurrentPiece
    /\ last_piece_token_len' = 1
    /\ result' = Append(result, encoder[CurrentPiece])
    /\ store_idx' = store_idx + 1
    /\ UNCHANGED <<config, start, start_find, next_special, store, parts,
                   tokens, count, pc>>

\* byte_pair_encode on a one-byte piece: ranks.get(&key).unwrap().
PieceSingleByte ==
    /\ pc = "pieces"
    /\ store_idx <= Len(store)
    /\ CurrentPiece \notin DOMAIN encoder
    /\ Len(CurrentPiece) = 1
    /\ piece' = CurrentPiece
    /\ IF UnwrapFails(CurrentPiece, encoder)
       THEN tokens' = tokens /\ pc' = "panic"
       ELSE tokens' = byte_pair_encode(CurrentPiece, encoder) /\ pc' = "extend"
    /\ UNCHANGED <<config, result, last_piece_token_len, start, start_find,
                   next_special, store, store_idx, parts, count>>

\* byte_pair_merge: parts and the initial pair ranks.
MergeInit ==
    /\ pc = "pieces"
    /\ store_idx <= Len(store)
    /\ CurrentPiece \notin DOMAIN encoder
    /\ Len(CurrentPiece) # 1
    /\ piece' = CurrentPiece
    /\ parts' = InitParts(CurrentPiece, encoder)
    /\ pc' = "merge"
    /\ UNCHANGED <<config, result, last_piece_token_len, start, start_find,
                   next_special, store, store_idx, tokens, count>>

\* One iteration of `while parts.len() > 1`.
MergeStep ==
    /\ pc = "merge"
    /\ Len(parts) > 1
    /\ parts' = MergeStepParts(piece, encoder, parts)
    /\ UNCHANGED <<config, result, last_piece_token_len, start, start_find,
                   next_special, store, store_idx, piece, tokens, count, pc>>

\* The loop is left: the remaining units are mapped through f.
MergeFinish ==
    /\ pc = "merge"
    /\ Len(parts) <= 1
    /\ tokens' = EmitParts(piece, encoder, parts)
    /\ pc' = "extend"
    /\ UNCHANGED <<config, result, last_piece_token_len, start, start_find,
                   next_special, store, store_idx, piece, parts, count>>

\* last_piece_token_len = tokens.len(); result.extend(tokens)
Extend ==
    /\ pc = "extend"
    /\ last_piece_token_len' = Len(tokens)
    /\ result' = result \o tokens
    /\ store_idx' = store_idx + 1
    /\ pc' = "pieces"
    /\ UNCHANGED <<config, start, start_find, next_special, store, piece,
                   parts, tokens, count>>

\* "handle next special token", after the pieces of the span.
HandleNextSpecial ==
    /\ pc = "pieces"
    /\ store_idx > Len(store)
    /\ IF next_special # None
       THEN LET temp == cut_chars(text_chars, start + next_special[1],
                                  start + next_special[2])
            IN  /\ IF temp \in DOMAIN special_tokens_encoder
                   THEN /\ result' = Append(result, special_tokens_encoder[temp])
                        /\ start' = start + next_special[2]
                        /\ last_piece_token_len' = 0
                   ELSE UNCHANGED <<result, start, last_piece_token_len>>
                /\ pc' = "scan"
       ELSE /\ pc' = "return"
            /\ UNCHANGED <<result, start, last_piece_token_len>>
    /\ UNCHANGED <<config, start_find, next_special, store, store_idx, piece,
                   parts, tokens, count>>

\* count_text: tokens.len() of the sequence encode_native returned.
CountReturn ==
    /\ pc = "return"
    /\ count' = Len(result)
    /\ pc' = "done"
    /\ UNCHANGED <<config, result, last_piece_token_len, start, start_find,
                   next_special, store, store_idx, piece, parts, tokens>>

Next ==
    \/ OuterLoopHead
    \/ Probe
    \/ Advance
    \/ Segment
    \/ PieceHit
    \/ PieceSingleByte
    \/ MergeInit
    \/ MergeStep
    \/ MergeFinish
    \/ Extend
    \/ HandleNextSpecial
    \/ CountReturn

Spec == Init /\ [][Next]_vars

\* The same program on the short texts.
InitLive == Init /\ text_chars \in ShortTexts

\* The program is sequential: whenever it has a next step, it takes it.
FairSpec == InitLive /\ [][Next]_vars /\ WF_vars(Next)

------------------------------------------------------------------------------
(* Vocabulary of the properties *)

Returned == pc = "done"

\* The pieces (as bytes) the segmentation pattern cuts a text into.
PiecesOf(chars) ==
    LET ms == find_regex_to_all_string_match_index(chars)
    IN  [k \in DOMAIN ms |-> Bytes(cut_chars(chars, ms[k][1], ms[k][2]))]

\* What one piece is to contribute: its rank when it is a vocabulary entry,
\* what byte_pair_encode returns otherwise.
PieceTokens(bytes) ==
    IF bytes \in DOMAIN encoder THEN <<encoder[bytes]>>
    ELSE byte_pair_encode(bytes, encoder)

\* No piece of the text makes byte_pair_encode fail.
NoPanicIn(chars) ==
    \A k \in DOMAIN PiecesOf(chars) :
        PiecesOf(chars)[k] \in DOMAIN encoder
            \/ ~UnwrapFails(PiecesOf(chars)[k], encoder)

RECURSIVE Flatten(_)
Flatten(seqs) ==
    IF seqs = <<>> THEN <<>> ELSE Head(seqs) \o Flatten(Tail(seqs))

\* The tokens of an ordinary text: those of its pieces, in piece order.
OrdinaryTokens(chars) ==
    Flatten([k \in DOMAIN PiecesOf(chars) |-> PieceTokens(PiecesOf(chars)[k])])

\* The bytes a token id stands for.
TokenBytes(t) ==
    IF t \in DOMAIN special_tokens_decoder THEN Bytes(special_tokens_decoder[t])
    ELSE decoder[t]

\* The bytes a token sequence decodes to.
DecodeAll(toks) == Flatten([k \in DOMAIN toks |-> TokenBytes(toks[k])])

\* Every byte of a byte string has a one-byte vocabulary entry.
SingleBytesKnown(bytes) == \A k \in DOMAIN bytes : <<bytes[k]>> \in DOMAIN encoder

\* Where a special-token literal occurs in a text.
Occurrences(chars, lit) == {i \in 1..Len(chars) : IsLiteralAt(chars, i, lit)}

HasSpecial(chars) ==
    \E lit \in DOMAIN special_tokens_encoder : Occurrences(chars, lit) # {}

\* The adjacent pairs of units of the merge list: i (the code's index) is a
\* pair when units i and i + 1 both exist; its bytes are their concatenation.
PairIdx(prts) == 0..Len(prts) - 3

PairBytes(prts, i) == Slice(piece, prts[i + 1][1], prts[i + 3][1])

VocabPairs(prts) == {i \in PairIdx(prts) : PairBytes(prts, i) \in DOMAIN encoder}

\* A step of the merge loop, and the (code's) index of the unit whose right
\* boundary the step removes.
IsMergeStep == pc = "merge" /\ pc' = "merge" /\ parts' # parts

Offsets(prts) == {prts[k][1] : k \in DOMAIN prts}

MergedIdx ==
    LET removed == CHOOSE b \in Offsets(parts) \ Offsets(parts') : TRUE
    IN  CHOOSE i \in 0..Len(parts) - 2 : parts[i + 2][1] = removed

------------------------------------------------------------------------------
(* The claims *)

\* C1: round trip.  With a vocabulary that has every single byte a text can
\* hold, the byte strings of the returned token ids, concatenated in order,
\* are exactly the bytes of the input text.
C1_RoundTrip ==
    (Returned /\ \A c \in Alphabet : SingleBytesKnown(Utf8(c)))
        => DecodeAll(result) = Bytes(text_chars)

\* C2: special-token precedence and order.  For a text A ++ literal ++ B with
\* one occurrence of a special-token literal, the returned tokens are the
\* tokens of A, then the literal's special id, then the tokens of B.
C2_SpecialPrecedence ==
    Returned =>
        \A lit \in DOMAIN special_tokens_encoder :
            \A i \in Occurrences(text_chars, lit) :
                LET A == SubSeq(text_chars, 1, i - 1)
                    B == SubSeq(text_chars, i + Len(lit), Len(text_chars))
                IN  (Occurrences(text_chars, lit) = {i} /\ NoPanicIn(A) /\ NoPanicIn(B))
                        => result = OrdinaryTokens(A)
                                      \o <<special_tokens_encoder[lit]>>
                                      \o OrdinaryTokens(B)

\* C3: termination.  For every text and every configuration CoreBpe::new
\* accepts, the empty special-token set included, encode_native eventually
\* stops (it returns, or aborts on a malformed vocabulary).
C3_Terminates == <>(pc \in {"done", "panic"})

\* C4: the merge output covers the piece.  For a piece of two or more bytes
\* that is no vocabulary entry, all of whose single bytes are vocabulary
\* entries, byte_pair_encode returns a non-empty sequence of ranks whose
\* units start at offset 0, end at piece.len() and decode to the piece.
C4_MergeCoversPiece ==
    (pc = "extend" /\ Len(piece) >= 2 /\ piece \notin DOMAIN encoder
        /\ SingleBytesKnown(piece))
        => /\ Len(tokens) >= 1
           /\ parts[1][1] = 0
           /\ parts[Len(parts)][1] = Len(piece)
           /\ Len(tokens) = Len(parts) - 1
           /\ DecodeAll(tokens) = piece

\* C5: lowest rank, leftmost first.  Every step of the merge loop merges the
\* adjacent pair whose bytes have the lowest vocabulary rank among the
\* adjacent pairs that are vocabulary entries, the leftmost of them on a tie.
C5_LowestRankLeftmost ==
    [][IsMergeStep =>
        /\ MergedIdx \in VocabPairs(parts)
        /\ \A j \in VocabPairs(parts) :
              \/ encoder[PairBytes(parts, j)] > encoder[PairBytes(parts, MergedIdx)]
              \/ /\ encoder[PairBytes(parts, j)] = encoder[PairBytes(parts, MergedIdx)]
                 /\ j >= MergedIdx]_vars

\* C6: a missing vocabulary entry is fatal.  When an ordinary text has a
\* piece with a byte that no vocabulary entry contains (so every cut of the
\* piece into units has a unit without an entry), encode_native does not
\* return a token sequence.
C6_MissingEntryFatal ==
    (Returned /\ ~HasSpecial(text_chars))
        => \A k \in DOMAIN PiecesOf(text_chars) :
              \A n \in DOMAIN PiecesOf(text_chars)[k] :
                  \E key \in DOMAIN encoder :
                      \E m \in DOMAIN key : key[m] = PiecesOf(text_chars)[k][n]

\* C7: token count and whole-piece hits.  count_text returns the length of
\* the token sequence of encode_native, and that sequence is, in piece order,
\* one token (the entry's rank) for every segmented piece that is a
\* vocabulary entry and the merge engine's tokens for every other piece.
C7_CountAndPieceTokens ==
    Returned =>
        /\ count = Len(result)
        /\ result = OrdinaryTokens(text_chars)

\* C7 witness: the call returned for a text of three pieces, two of them
\* vocabulary entries and one handed to the merge engine, and the count is 2.
C7_Witness ==
    /\ Returned
    /\ Len(store) = 3
    /\ Cardinality({k \in DOMAIN store :
           PiecesOf(text_chars)[k] \in DOMAIN encoder}) = 2
    /\ parts # <<>>
    /\ count = 2

\* C8: only vocabulary pairs are merged.  A step of the merge loop removes
\* the boundary of two adjacent units only when their concatenation is a
\* vocabulary entry; so a piece none of whose adjacent byte pairs is an entry
\* comes out as one token per byte, the byte's own rank.
C8_OnlyVocabularyPairs ==
    /\ [][IsMergeStep => MergedIdx \in VocabPairs(parts)]_vars
    /\ [](( /\ pc = "extend"
            /\ Len(piece) >= 2
            /\ SingleBytesKnown(piece)
            /\ \A k \in 1..Len(piece) - 1 :
                   SubSeq(piece, k, k + 1) \notin DOMAIN encoder)
          => tokens = [k \in 1..Len(piece) |-> encoder[<<piece[k]>>]])

\* C9: the cached ranks are those of a recomputation.  After the
\* initialisation and after every merge step, the rank cached for a unit is
\* the vocabulary rank of the unit joined with its right neighbour, or
\* usize::MAX when that is no entry or there is no right neighbour.
C9_CachedRanksExact ==
    pc = "merge" =>
        \A k \in DOMAIN parts :
            parts[k][2] =
                IF k + 2 <= Len(parts)
                   /\ Slice(piece, parts[k][1], parts[k + 2][1]) \in DOMAIN encoder
                THEN encoder[Slice(piece, parts[k][1], parts[k + 2][1])]
                ELSE UsizeMax

\* The text after the last special-token literal (the whole text when it
\* has none): the last ordinary span.
AfterLastSpecial ==
    LET ends == {0} \cup
                UNION {{i + Len(lit) - 1 : i \in Occurrences(text_chars, lit)} :
                          lit \in DOMAIN special_tokens_encoder}
        last == CHOOSE e \in ends : \A f \in ends : f <= e
    IN  SubSeq(text_chars, last + 1, Len(text_chars))

\* C10: last_piece_token_len is the number of tokens the last ordinary piece
\* contributed, and 0 when a special token was consumed last or no piece was
\* processed.
C10_LastPieceTokenLen ==
    Returned =>
        LET ps == PiecesOf(AfterLastSpecial)
        IN  IF ps = <<>> THEN last_piece_token_len = 0
            ELSE /\ NoPanicIn(AfterLastSpecial)
                 /\ last_piece_token_len = Len(PieceTokens(ps[Len(ps)]))

====
